---- MODULE Spec2Model ----
(***************************************************************************)
(* The EC2 cost canary: one invocation of the Lambda handler of            *)
(* src/bin/costCanary.ts (lines 23-182).                                   *)
(*                                                                         *)
(* The handler awaits three kinds of remote call: ec2.describeInstances,   *)
(* pricing.getProducts (once per key of instanceCountByType) and           *)
(* cloudwatch.putMetricData.  An action of the model is one synchronous    *)
(* segment of the handler: from the settlement of an awaited promise to    *)
(* the next await (or to the end / the throw).                             *)
(*                                                                         *)
(* Money is kept exact.  A rate is an integer number of cents per hour, a  *)
(* per-instance cost is kept in units of 1/3600 cent (rate * seconds), and *)
(* the published value is an integer number of cents (a decimal with two   *)
(* places).  Binary floating point error of the JavaScript arithmetic is   *)
(* not modelled; the launch times are chosen so that no sum lies on a      *)
(* rounding boundary, where the error would decide the digit.  Time is in  *)
(* milliseconds, as Date.getTime() gives it.                               *)
(***************************************************************************)
EXTENDS Integers, Sequences, FiniteSets, TLC

VARIABLES
    pc,                \* position of the handler: start, awaitDescribe, awaitPrice, awaitPut, done, failed
    inventory,         \* the provider's matching running instances: pages of reservations of instances
    catalog,           \* the pricing catalog: instance type -> PriceList of the getProducts response
    now,               \* the wall clock at its last reading (ms)
    instances,         \* line 51
    instanceCountByType, \* line 53, its keys in insertion order
    priceList,         \* line 63
    instancesWithPrices, \* line 128
    readAt,            \* the value of new Date() in the callback of line 143, per instance
    totalCostPerInstanceFromLaunch, \* line 143
    totalCost,         \* line 157
    log,               \* every remote call issued and every response received, in order
    failure            \* why the invocation failed ("" while it has not)

vars == <<pc, inventory, catalog, now, instances, instanceCountByType, priceList,
          instancesWithPrices, readAt, totalCostPerInstanceFromLaunch, totalCost,
          log, failure>>

----------------------------------------------------------------------------
\* Bounds of the model

MaxInstances == 2
MaxTicks == 1

----------------------------------------------------------------------------
\* Units

MsPerSecond == 1000
SecondsPerHour == 60 * 60
\* the clock moves on by whole seconds between two readings
TickMs == MsPerSecond
HourMs == SecondsPerHour * MsPerSecond
\* the clock at the start of the invocation, half a second past the hour
StartNow == HourMs + MsPerSecond \div 2

----------------------------------------------------------------------------
\* JavaScript values of a pricing document

\* a non-empty decimal string: the rate n in cents per hour ("1.00" is Str(100))
Str(n) == [kind |-> "str", val |-> n, fields |-> <<>>]
\* the empty string
EmptyStr == [kind |-> "emptystr", val |-> 0, fields |-> <<>>]
Undefined == [kind |-> "undefined", val |-> 0, fields |-> <<>>]
\* an object: its own properties in insertion order
Obj(fs) == [kind |-> "obj", val |-> 0, fields |-> fs]
\* an array: its elements by index
Arr(items) ==
    [kind |-> "arr", val |-> 0,
     fields |-> [i \in 1..Len(items) |-> [key |-> "#", node |-> items[i]]]]
F(k, n) == [key |-> k, node |-> n]

\* JavaScript numbers: an integer or NaN
Num(n) == [nan |-> FALSE, v |-> n]
NaN == [nan |-> TRUE, v |-> 0]

\* ToBoolean
Truthy(x) == x.kind \in {"str", "obj", "arr"}

\* x[key] for a string key that is no array index
Get(x, key) ==
    IF x.kind = "obj" /\ \E i \in 1..Len(x.fields) : x.fields[i].key = key
    THEN x.fields[CHOOSE i \in 1..Len(x.fields) : x.fields[i].key = key].node
    ELSE Undefined

\* The values JSON.stringify hands to its replacer, in order: the value itself,
\* then the values of its properties (insertion order) or elements (by index),
\* each followed by its own.
RECURSIVE Visit(_)
RECURSIVE VisitFields(_, _)
Visit(x) == <<x>> \o VisitFields(x.fields, 1)
VisitFields(fs, i) ==
    IF i > Len(fs) THEN <<>> ELSE Visit(fs[i].node) \o VisitFields(fs, i + 1)

\* The replacer of lines 112-117 run over the visited values: foundObj is
\* assigned at every value that has a truthy keyToFind.
RECURSIVE Replacer(_, _, _, _)
Replacer(visited, i, keyToFind, foundObj) ==
    IF i > Len(visited) THEN foundObj
    ELSE Replacer(visited, i + 1, keyToFind,
                  IF Truthy(visited[i]) /\ Truthy(Get(visited[i], keyToFind))
                  THEN visited[i] ELSE foundObj)

\* a findPrice that gives a missing price the default "0.00"
findPriceOrZero(entireObj, keyToFind) ==
    LET foundObj == Replacer(Visit(entireObj), 1, keyToFind, Undefined)
    IN  IF foundObj.kind = "undefined" THEN Str(0) ELSE Get(foundObj, "USD")

findPrice(entireObj, keyToFind) ==
    LET foundObj == Replacer(Visit(entireObj), 1, keyToFind, Undefined)
    IN  Get(foundObj, "USD")

\* ToNumber, as the division of line 151 applies it to instance.Price
RECURSIVE ToNumber(_)
ToNumber(x) ==
    CASE x.kind = "str" -> Num(x.val)
      [] x.kind = "emptystr" -> Num(0)
      [] x.kind = "undefined" -> NaN
      [] x.kind = "obj" -> NaN
      [] x.kind = "arr" ->
            IF Len(x.fields) = 0 THEN Num(0)
            ELSE IF Len(x.fields) = 1
                 THEN IF x.fields[1].node.kind = "undefined" THEN Num(0)
                      ELSE ToNumber(x.fields[1].node)
                 ELSE NaN

----------------------------------------------------------------------------
\* Enumeration and deduplication

\* lines 28-40: one describeInstances call, made without a NextToken and
\* its answer read for Reservations alone: the reservations of the first page
describeInstancesResponse(inv) == inv[1]

\* the reservations of every page of the inventory
RECURSIVE everyPage(_)
everyPage(inv) == IF inv = <<>> THEN <<>> ELSE inv[1] \o everyPage(Tail(inv))

\* lines 44-49 on the array of lines 40-42: an array (the reservations) of
\* arrays of instances, which are no arrays themselves
RECURSIVE flattenArray(_)
flattenArray(ary) ==
    IF ary = <<>> THEN <<>> ELSE ary[1] \o flattenArray(Tail(ary))

HasKey(counts, t) == \E i \in 1..Len(counts) : counts[i].instanceType = t

\* a count that makes a new key for every instance
RECURSIVE countPerInstance(_, _)
countPerInstance(insts, counts) ==
    IF insts = <<>> THEN counts
    ELSE countPerInstance(Tail(insts),
            Append(counts, [instanceType |-> insts[1].InstanceType, count |-> 1]))

\* lines 57-61: the forEach over instances
RECURSIVE countByType(_, _)
countByType(insts, counts) ==
    IF insts = <<>> THEN counts
    ELSE LET t == insts[1].InstanceType
         IN  countByType(Tail(insts),
                IF HasKey(counts, t)
                THEN [i \in 1..Len(counts) |->
                        IF counts[i].instanceType = t
                        THEN [counts[i] EXCEPT !.count = @ + 1]
                        ELSE counts[i]]
                ELSE Append(counts, [instanceType |-> t, count |-> 1]))

----------------------------------------------------------------------------
\* Aggregation

\* lines 130-132: priceList.find
HasPrice(pl, t) == \E i \in 1..Len(pl) : pl[i].instanceType = t
FindPriceObject(pl, t) ==
    pl[CHOOSE i \in 1..Len(pl) :
          /\ pl[i].instanceType = t
          /\ \A j \in 1..(i - 1) : pl[j].instanceType # t]

\* a difference in milliseconds, the division left out
timeDifferenceMs(date1, date2) == date2 - date1

\* lines 139-140
timeDifference(date1, date2) == (date2 - date1) \div MsPerSecond

\* lines 151-152, in units of 1/3600 cent
costFromLaunch(price, launchTime, date) ==
    LET p == ToNumber(price)
    IN  IF p.nan THEN NaN ELSE Num(p.v * timeDifference(launchTime, date))

Plus(a, b) == IF a.nan \/ b.nan THEN NaN ELSE Num(a.v + b.v)

RECURSIVE reduceFrom(_, _)
reduceFrom(values, accumulator) ==
    IF values = <<>> THEN accumulator
    ELSE reduceFrom(Tail(values), Plus(accumulator, values[1]))

\* a reduce without its initial value: nothing to start from on an empty array
reduceNoInitial(values) ==
    IF values = <<>> THEN NaN ELSE reduceFrom(Tail(values), values[1])

\* lines 157-160
reduceSum(values) == reduceFrom(values, Num(0))

\* line 161 and the JSON.parse of line 176: the sum (1/3600 cent) as a decimal
\* with two places (cents), halves away from zero; NaN gives "NaN"
toFixed2(x) ==
    IF x.nan THEN NaN
    ELSE LET a == IF x.v < 0 THEN -x.v ELSE x.v
             n == (2 * a + SecondsPerHour) \div (2 * SecondsPerHour)
         IN  Num(IF x.v < 0 THEN -n ELSE n)

----------------------------------------------------------------------------
\* The environment of one invocation

InstanceTypes == {"t4g.2xlarge", "t3.micro"}

\* launched 3600.5 s before the invocation, 1800.5 s before it, 3599.5 s after
\* it (a launch time ahead of the function's clock), and 3620.5 s before it (a
\* cost that is no whole number of cents)
LaunchTimes == {0, HourMs \div 2, 2 * HourMs, -(20 * MsPerSecond)}

InstancePool == [InstanceType : InstanceTypes, LaunchTime : LaunchTimes]

InstanceLists == UNION {[1..n -> InstancePool] : n \in 0..MaxInstances}

\* s cut into consecutive pieces of at most size elements
RECURSIVE Chunk(_, _)
Chunk(s, size) ==
    IF Len(s) = 0 THEN <<>>
    ELSE IF Len(s) <= size THEN <<s>>
         ELSE <<SubSeq(s, 1, size)>> \o Chunk(SubSeq(s, size + 1, Len(s)), size)

\* the instances grouped into reservations, the reservations into response
\* pages; a provider with nothing to report still answers with one empty page
Paged(list, perReservation, perPage) ==
    LET pages == Chunk(Chunk(list, perReservation), perPage)
    IN  IF pages = <<>> THEN << <<>> >> ELSE pages

Inventories ==
    {Paged(l, r, p) : l \in InstanceLists, r \in 1..2, p \in 1..2}

\* a pricing document of the shape of the Price List API: product attributes,
\* then the terms with the price per unit
OnDemandDoc(rate) ==
    Obj(<<F("product", Obj(<<F("vcpu", Str(800))>>)),
          F("terms", Obj(<<F("OnDemand",
                Obj(<<F("pricePerUnit", Obj(<<F("USD", Str(rate))>>))>>))>>))>>)

\* a document that prices in another currency only
NoUsdDoc ==
    Obj(<<F("product", Obj(<<F("vcpu", Str(800))>>)),
          F("terms", Obj(<<F("OnDemand",
                Obj(<<F("pricePerUnit", Obj(<<F("CNY", Str(700))>>))>>))>>))>>)

PriceLists ==
    {Arr(<<>>), Arr(<<NoUsdDoc>>), Arr(<<OnDemandDoc(100)>>), Arr(<<OnDemandDoc(200)>>)}

\* nested documents with up to two levels of objects above the rate maps
Leaves == {Str(100), Str(200), EmptyStr}
RateMaps ==
    {Obj(<<F(k, v)>>) : k \in {"USD", "unit"}, v \in Leaves}
    \cup {Obj(<<F("unit", u), F("USD", v)>>) : u \in {Str(100)}, v \in Leaves}
Terms ==
    {Obj(<<F("OnDemand", a)>>) : a \in RateMaps \cup Leaves}
    \cup {Obj(<<F("OnDemand", a), F("Reserved", b)>>) : a \in RateMaps, b \in RateMaps}
NestedPriceLists ==
    {Arr(<<d>>) : d \in Terms} \cup {Arr(<<Obj(<<F("terms", d), F("USD", v)>>)>>) :
                                        d \in Terms, v \in {EmptyStr, Str(100)}}

Event(op, phase, arg, value) ==
    [op |-> op, phase |-> phase, arg |-> arg, value |-> value]

TypeOK ==
    /\ pc \in {"start", "awaitDescribe", "awaitPrice", "awaitPut", "done", "failed"}
    /\ now \in {StartNow + k * TickMs : k \in 0..MaxTicks}
    /\ Len(instances) <= MaxInstances
    /\ Len(priceList) <= Len(instanceCountByType)

Init ==
    /\ pc = "start"
    /\ inventory \in Inventories
    /\ catalog \in [InstanceTypes -> PriceLists]
    /\ now = StartNow
    /\ instances = <<>>
    /\ instanceCountByType = <<>>
    /\ priceList = <<>>
    /\ instancesWithPrices = <<>>
    /\ readAt = <<>>
    /\ totalCostPerInstanceFromLaunch = <<>>
    /\ totalCost = Num(0)
    /\ log = <<>>
    /\ failure = ""

\* an invocation over one instance whose type has a nested pricing document
InitDocs ==
    /\ pc = "start"
    /\ inventory \in {Paged(l, 1, 1) : l \in [1..1 -> [InstanceType : {"t4g.2xlarge"},
                                                       LaunchTime : {0}]]}
    /\ catalog \in {[t \in InstanceTypes |->
                        IF t = "t4g.2xlarge" THEN d ELSE Arr(<<>>)] :
                    d \in NestedPriceLists}
    /\ now = StartNow
    /\ instances = <<>>
    /\ instanceCountByType = <<>>
    /\ priceList = <<>>
    /\ instancesWithPrices = <<>>
    /\ readAt = <<>>
    /\ totalCostPerInstanceFromLaunch = <<>>
    /\ totalCost = Num(0)
    /\ log = <<>>
    /\ failure = ""

----------------------------------------------------------------------------
\* The handler

\* what n successive readings of new Date() can give, the clock being at t
RECURSIVE ClockReadings(_, _)
ClockReadings(n, t) ==
    IF n = 0 THEN {<<>>}
    ELSE UNION {{<<r>> \o rest : rest \in ClockReadings(n - 1, r)} :
                r \in {t + k * TickMs : k \in 0..((StartNow + MaxTicks * TickMs - t) \div TickMs)}}

\* lines 128-137
joinPrices(insts, pl) ==
    [i \in 1..Len(insts) |->
        [InstanceType |-> insts[i].InstanceType,
         LaunchTime |-> insts[i].LaunchTime,
         Price |-> FindPriceObject(pl, insts[i].InstanceType).price]]

\* lines 127-181, the segment after the last pricing response: the join, the
\* cost of each instance at its own reading of the clock, the sum, and the
\* call of putMetricData (JSON.parse throws on "NaN" before the call is made)
AggregateAndPublish(insts, pl, lg) ==
    IF \E i \in 1..Len(insts) : ~HasPrice(pl, insts[i].InstanceType)
    THEN /\ pc' = "failed"
         /\ failure' = "TypeError"
         /\ log' = lg
         /\ UNCHANGED <<now, instancesWithPrices, readAt,
                        totalCostPerInstanceFromLaunch, totalCost>>
    ELSE \E reads \in ClockReadings(Len(insts), now) :
         LET joined == joinPrices(insts, pl)
             costs == [i \in 1..Len(insts) |->
                          costFromLaunch(joined[i].Price, joined[i].LaunchTime, reads[i])]
             total == toFixed2(reduceSum(costs))
         IN  /\ instancesWithPrices' = joined
             /\ readAt' = reads
             /\ now' = IF reads = <<>> THEN now ELSE reads[Len(reads)]
             /\ totalCostPerInstanceFromLaunch' = costs
             /\ totalCost' = total
             /\ IF total.nan
                THEN /\ pc' = "failed"
                     /\ failure' = "SyntaxError"
                     /\ log' = lg
                ELSE /\ pc' = "awaitPut"
                     /\ failure' = failure
                     /\ log' = Append(lg, Event("putMetricData", "call", "", total.v))

\* lines 23-39: the handler is invoked and awaits describeInstances
Invoke ==
    /\ pc = "start"
    /\ pc' = "awaitDescribe"
    /\ log' = Append(log, Event("describeInstances", "call", "", 0))
    /\ UNCHANGED <<inventory, catalog, now, instances, instanceCountByType, priceList,
                   instancesWithPrices, readAt, totalCostPerInstanceFromLaunch,
                   totalCost, failure>>

\* lines 40-69: the response arrives; flatten, count by type, and either the
\* first getProducts is awaited or, with no type at all, lines 127-181 run
DescribeInstancesResolve ==
    /\ pc = "awaitDescribe"
    /\ LET insts == flattenArray(describeInstancesResponse(inventory))
           counts == countByType(insts, <<>>)
           lg == Append(log, Event("describeInstances", "ok", "", 0))
       IN  /\ instances' = insts
           /\ instanceCountByType' = counts
           /\ priceList' = <<>>
           /\ IF counts # <<>>
              THEN /\ pc' = "awaitPrice"
                   /\ log' = Append(lg, Event("getProducts", "call", counts[1].instanceType, 0))
                   /\ UNCHANGED <<now, instancesWithPrices, readAt,
                                  totalCostPerInstanceFromLaunch, totalCost, failure>>
              ELSE AggregateAndPublish(insts, <<>>, lg)
    /\ UNCHANGED <<inventory, catalog>>

\* a rejection caught and taken for an empty fleet
DescribeInstancesRejectSwallowed ==
    /\ pc = "awaitDescribe"
    /\ instances' = <<>>
    /\ instanceCountByType' = <<>>
    /\ priceList' = <<>>
    /\ AggregateAndPublish(<<>>, <<>>, Append(log, Event("describeInstances", "err", "", 0)))
    /\ UNCHANGED <<inventory, catalog>>

\* line 39: the awaited promise rejects and the handler's promise with it
DescribeInstancesReject ==
    /\ pc = "awaitDescribe"
    /\ pc' = "failed"
    /\ failure' = "describeInstances"
    /\ log' = Append(log, Event("describeInstances", "err", "", 0))
    /\ UNCHANGED <<inventory, catalog, now, instances, instanceCountByType, priceList,
                   instancesWithPrices, readAt, totalCostPerInstanceFromLaunch, totalCost>>

\* lines 107-125 and the next turn of the loop of line 67: the price of the
\* awaited type is pushed; the next type is asked for, or lines 127-181 run
GetProductsResolve ==
    /\ pc = "awaitPrice"
    /\ LET instanceType == instanceCountByType[Len(priceList) + 1].instanceType
           pl == Append(priceList,
                        [instanceType |-> instanceType,
                         price |-> findPrice(catalog[instanceType], "USD")])
           lg == Append(log, Event("getProducts", "ok", instanceType, 0))
       IN  /\ priceList' = pl
           /\ IF Len(pl) < Len(instanceCountByType)
              THEN /\ pc' = "awaitPrice"
                   /\ log' = Append(lg, Event("getProducts", "call",
                                              instanceCountByType[Len(pl) + 1].instanceType, 0))
                   /\ UNCHANGED <<now, instancesWithPrices, readAt,
                                  totalCostPerInstanceFromLaunch, totalCost, failure>>
              ELSE AggregateAndPublish(instances, pl, lg)
    /\ UNCHANGED <<inventory, catalog, instances, instanceCountByType>>

\* a rejection caught inside the loop, which goes on with the next type
GetProductsRejectContinue ==
    /\ pc = "awaitPrice"
    /\ LET instanceType == instanceCountByType[Len(priceList) + 1].instanceType
           pl == Append(priceList, [instanceType |-> instanceType, price |-> Undefined])
           lg == Append(log, Event("getProducts", "err", instanceType, 0))
       IN  /\ priceList' = pl
           /\ IF Len(pl) < Len(instanceCountByType)
              THEN /\ pc' = "awaitPrice"
                   /\ log' = Append(lg, Event("getProducts", "call",
                                              instanceCountByType[Len(pl) + 1].instanceType, 0))
                   /\ UNCHANGED <<now, instancesWithPrices, readAt,
                                  totalCostPerInstanceFromLaunch, totalCost, failure>>
              ELSE AggregateAndPublish(instances, pl, lg)
    /\ UNCHANGED <<inventory, catalog, instances, instanceCountByType>>

\* line 106: the awaited promise rejects and the handler's promise with it
GetProductsReject ==
    /\ pc = "awaitPrice"
    /\ pc' = "failed"
    /\ failure' = "getProducts"
    /\ log' = Append(log, Event("getProducts", "err",
                                instanceCountByType[Len(priceList) + 1].instanceType, 0))
    /\ UNCHANGED <<inventory, catalog, now, instances, instanceCountByType, priceList,
                   instancesWithPrices, readAt, totalCostPerInstanceFromLaunch, totalCost>>

\* line 181: the datapoint is accepted and the handler returns
PutMetricDataResolve ==
    /\ pc = "awaitPut"
    /\ pc' = "done"
    /\ log' = Append(log, Event("putMetricData", "ok", "", 0))
    /\ UNCHANGED <<inventory, catalog, now, instances, instanceCountByType, priceList,
                   instancesWithPrices, readAt, totalCostPerInstanceFromLaunch,
                   totalCost, failure>>

\* line 181: the awaited promise rejects and the handler's promise with it
PutMetricDataReject ==
    /\ pc = "awaitPut"
    /\ pc' = "failed"
    /\ failure' = "putMetricData"
    /\ log' = Append(log, Event("putMetricData", "err", "", 0))
    /\ UNCHANGED <<inventory, catalog, now, instances, instanceCountByType, priceList,
                   instancesWithPrices, readAt, totalCostPerInstanceFromLaunch, totalCost>>

\* the runtime's timeout ends the invocation while it awaits a response
Timeout ==
    /\ pc \in {"awaitDescribe", "awaitPrice", "awaitPut"}
    /\ pc' = "failed"
    /\ failure' = "timeout"
    /\ log' = Append(log, Event("timeout", "err", "", 0))
    /\ UNCHANGED <<inventory, catalog, now, instances, instanceCountByType, priceList,
                   instancesWithPrices, readAt, totalCostPerInstanceFromLaunch, totalCost>>

Next ==
    \/ Invoke
    \/ DescribeInstancesResolve
    \/ DescribeInstancesReject
    \/ GetProductsResolve
    \/ GetProductsReject
    \/ PutMetricDataResolve
    \/ PutMetricDataReject
    \/ Timeout

Spec == Init /\ [][Next]_vars

SpecDocs == InitDocs /\ [][Next]_vars

----------------------------------------------------------------------------
\* What the properties below are stated in

CallIdx(op) == {k \in 1..Len(log) : log[k].op = op /\ log[k].phase = "call"}
ReplyIdx(op) == {k \in 1..Len(log) : log[k].op = op /\ log[k].phase \in {"ok", "err"}}
PutCallIdx == CallIdx("putMetricData")

\* the inventory query has answered
Enumerated ==
    \E k \in 1..Len(log) : log[k].op = "describeInstances" /\ log[k].phase = "ok"

DistinctTypes == {instances[i].InstanceType : i \in 1..Len(instances)}

\* the loop of line 67 has run through all its keys
LoopEnded ==
    \/ pc \in {"awaitPut", "done"}
    \/ failure \in {"SyntaxError", "TypeError", "putMetricData"}
    \/ failure = "timeout" /\ PutCallIdx # {}

\* every value inside x, x included
RECURSIVE NodesOf(_)
NodesOf(x) == {x} \cup UNION {NodesOf(x.fields[i].node) : i \in 1..Len(x.fields)}

CarriesUSD(x) == x.kind = "obj" /\ \E i \in 1..Len(x.fields) : x.fields[i].key = "USD"

\* no document, or no object with the key "USD"
NoExtractablePrice(t) ==
    \/ Len(catalog[t].fields) = 0
    \/ \A x \in NodesOf(catalog[t]) : ~CarriesUSD(x)

\* the decimal strings found under a key "USD" in the documents of type t
CatalogRates(t) ==
    {Get(x, "USD").val : x \in {y \in NodesOf(catalog[t]) :
                                    CarriesUSD(y) /\ Get(y, "USD").kind = "str"}}

\* C1: whenever some enumerated instance is of a type without an extractable
\* price, the invocation is still resolving prices or has failed, it has made
\* no putMetricData call, and the price recorded for such a type is undefined,
\* not a zero or a default.
C1_MissingPriceFailsWithoutPublish ==
    (\E i \in 1..Len(instances) : NoExtractablePrice(instances[i].InstanceType))
    => /\ pc \in {"awaitPrice", "failed"}
       /\ PutCallIdx = {}
       /\ \A j \in 1..Len(priceList) :
             NoExtractablePrice(priceList[j].instanceType)
             => priceList[j].price = Undefined

\* an invocation that priced every type it could, found one price missing and
\* failed at the JSON.parse of "NaN", before any putMetricData call
C1_Witness ==
    /\ pc = "failed"
    /\ failure = "SyntaxError"
    /\ Len(instances) = 2
    /\ \E i \in 1..Len(instances) : NoExtractablePrice(instances[i].InstanceType)
    /\ \E i \in 1..Len(instances) : ~NoExtractablePrice(instances[i].InstanceType)
    /\ PutCallIdx = {}

\* C2: for a pricing document with two or more objects carrying a "USD" key
\* with different rate values, the price recorded is the rate of the first of
\* them in the depth-first traversal.
C2_FirstMatchWins ==
    \A j \in 1..Len(priceList) :
        LET visited == Visit(catalog[priceList[j].instanceType])
            carriers == {k \in 1..Len(visited) : CarriesUSD(visited[k])}
            first == CHOOSE k \in carriers : \A m \in carriers : k <= m
        IN  (\E a, b \in carriers : Get(visited[a], "USD") # Get(visited[b], "USD"))
            => priceList[j].price = Get(visited[first], "USD")

\* C3: getProducts is never called twice for a type nor for a type that is not
\* among the instances, and once the loop has ended the calls number the
\* distinct types and priceList has exactly one entry for each of them.
C3_OneQueryPerDistinctType ==
    /\ \A k \in CallIdx("getProducts") : log[k].arg \in DistinctTypes
    /\ \A k, m \in CallIdx("getProducts") : log[k].arg = log[m].arg => k = m
    /\ LoopEnded
       => /\ Cardinality(CallIdx("getProducts")) = Cardinality(DistinctTypes)
          /\ Len(priceList) = Cardinality(DistinctTypes)
          /\ {priceList[j].instanceType : j \in 1..Len(priceList)} = DistinctTypes

\* two instances of one type, priced with a single call
C3_Witness ==
    /\ LoopEnded
    /\ Len(instances) = 2
    /\ Cardinality(DistinctTypes) = 1
    /\ Cardinality(CallIdx("getProducts")) = 1
    /\ Len(priceList) = 1

\* C4: when the inventory query answers with no instance, there is no pricing
\* call, the total is 0.00 and exactly one putMetricData call is made, with
\* the value 0.
C4_EmptyFleetPublishesZero ==
    (Enumerated /\ instances = <<>>)
    => /\ CallIdx("getProducts") = {}
       /\ totalCost = Num(0)
       /\ Cardinality(PutCallIdx) = 1
       /\ \A k \in PutCallIdx : log[k].value = 0

C4_Witness ==
    /\ Enumerated
    /\ instances = <<>>
    /\ pc = "done"
    /\ \E k \in PutCallIdx : log[k].value = 0

\* C5: the published total is never negative and no instance contributes a
\* negative cost (the rates of the catalog are all non-negative), also when a
\* launch time is later than the reading of the clock.
C5_TotalNeverNegative ==
    /\ \A k \in PutCallIdx : log[k].value >= 0
    /\ \A i \in 1..Len(totalCostPerInstanceFromLaunch) :
          ~totalCostPerInstanceFromLaunch[i].nan
          => totalCostPerInstanceFromLaunch[i].v >= 0

\* C6: once the inventory query has answered, instances holds the instances
\* of every page, in order.
C6_EveryPageEnumerated ==
    Enumerated => instances = flattenArray(everyPage(inventory))

\* C7: putMetricData is called at most once, and only after the inventory
\* query and a pricing query for every type have answered without error; no
\* query is issued twice; a failure is the last thing that happens, and after
\* a failed inventory or pricing query no datapoint has been published.
C7_PublishOnlyAfterAllQueries ==
    /\ Cardinality(PutCallIdx) <= 1
    /\ Cardinality(CallIdx("describeInstances")) <= 1
    /\ \A k, m \in CallIdx("getProducts") : log[k].arg = log[m].arg => k = m
    /\ \A k \in PutCallIdx :
          /\ \A j \in 1..(k - 1) : log[j].phase # "err"
          /\ \E j \in 1..(k - 1) : log[j].op = "describeInstances" /\ log[j].phase = "ok"
          /\ \A t \in DistinctTypes :
                \E j \in 1..(k - 1) :
                    log[j].op = "getProducts" /\ log[j].phase = "ok" /\ log[j].arg = t
    /\ \A k \in 1..Len(log) : log[k].phase = "err" => k = Len(log) /\ pc = "failed"
    /\ failure \in {"describeInstances", "getProducts"} => PutCallIdx = {}

\* the second of two pricing queries failed: one price was resolved, nothing
\* was published
C7_Witness ==
    /\ pc = "failed"
    /\ failure = "getProducts"
    /\ Len(priceList) = 1
    /\ Cardinality(DistinctTypes) = 2
    /\ PutCallIdx = {}

\* the getProducts calls issued and not yet answered after the first k events
InFlight(k) ==
    Cardinality({j \in CallIdx("getProducts") : j <= k})
    - Cardinality({j \in ReplyIdx("getProducts") : j <= k})

\* C8: at most one getProducts call is in flight at any time, a call for a
\* further type directly follows the successful answer to the previous one,
\* and no call follows a failed one.
C8_PricingIsSequential ==
    \A k \in 1..Len(log) :
        /\ InFlight(k) \in {0, 1}
        /\ (k \in CallIdx("getProducts") /\ \E j \in CallIdx("getProducts") : j < k)
           => log[k - 1].op = "getProducts" /\ log[k - 1].phase = "ok"
        /\ (log[k].op = "getProducts" /\ log[k].phase = "err")
           => \A j \in CallIdx("getProducts") : j < k

\* the second type is being asked for, after the answer for the first
C8_Witness ==
    /\ pc = "awaitPrice"
    /\ Cardinality(CallIdx("getProducts")) = 2
    /\ Cardinality(ReplyIdx("getProducts")) = 1

\* the sum of rate * elapsed seconds over the instances from i on, in units of
\* 1/3600 cent, each instance at the reading of the clock taken for it
RECURSIVE ExactCostFrom(_)
ExactCostFrom(i) ==
    IF i > Len(instances) THEN 0
    ELSE (CHOOSE r \in CatalogRates(instances[i].InstanceType) : TRUE)
           * ((readAt[i] - instances[i].LaunchTime) \div MsPerSecond)
         + ExactCostFrom(i + 1)

\* every type has one rate and no launch time is after the clock
PricedAndLaunched ==
    /\ Len(readAt) = Len(instances)
    /\ \A i \in 1..Len(instances) :
          /\ Cardinality(CatalogRates(instances[i].InstanceType)) = 1
          /\ instances[i].LaunchTime <= readAt[i]

\* type A at 1.00 an hour for 3600 s and type B at 2.00 an hour for 1800 s
ExampleOfTwo ==
    /\ instances = <<[InstanceType |-> "t4g.2xlarge", LaunchTime |-> 0],
                     [InstanceType |-> "t3.micro", LaunchTime |-> HourMs \div 2]>>
    /\ CatalogRates("t4g.2xlarge") = {100}
    /\ CatalogRates("t3.micro") = {200}
    /\ readAt = <<StartNow, StartNow>>

\* C9: when every type has a price and no launch time is after the clock, the
\* published value is the sum of (rate / 3600) * elapsed seconds over all the
\* instances, rounded to the nearest cent (a half rounds up); the example of
\* two instances publishes 2.00.
C9_PublishedIsRoundedSum ==
    \A k \in PutCallIdx :
        PricedAndLaunched
        => /\ SecondsPerHour * (2 * log[k].value - 1) <= 2 * ExactCostFrom(1)
           /\ 2 * ExactCostFrom(1) < SecondsPerHour * (2 * log[k].value + 1)
           /\ ExampleOfTwo => log[k].value = 200

C9_Witness ==
    /\ pc = "done"
    /\ ExampleOfTwo
    /\ \E k \in PutCallIdx : log[k].value = 200

\* C10: every instance's elapsed time is measured against one instant, so
\* that two instances with the same launch time and the same type accrue the
\* same cost, whatever the wall clock does during the aggregation.
C10_OneEvaluationInstant ==
    \A i, j \in 1..Len(totalCostPerInstanceFromLaunch) :
        (/\ instancesWithPrices[i].InstanceType = instancesWithPrices[j].InstanceType
         /\ instancesWithPrices[i].LaunchTime = instancesWithPrices[j].LaunchTime)
        => totalCostPerInstanceFromLaunch[i] = totalCostPerInstanceFromLaunch[j]

====
